---- MODULE Spec2Model ----
(***************************************************************************)
(* A model of the conversation tree of simbleau/convo (src/src/tree.rs):   *)
(* the Tree container (an insertion-ordered map of nodes, an optional      *)
(* root key and an optional current key) and the operations its owner can  *)
(* apply to it.  Every call is one step; `last` keeps what the call was,   *)
(* what it returned and the Tree it was applied to.                        *)
(***************************************************************************)
EXTENDS Integers, Sequences, FiniteSets, TLC

\* ------------------------------------------------------------------ bounds
\* Number of distinct node keys the owner inserts.
MaxKeys == 2

\* ------------------------------------------------------------------ inputs
KeyNames == <<"start", "end", "mid", "far">>
\* Keys of the nodes the owner inserts.
Keys == {KeyNames[i] : i \in 1..MaxKeys}
\* Keys handed to set_root_key / set_current_key: the inserted ones and one
\* that is never inserted.
CallKeys == Keys \cup {"missing"}
Dialogues == {"Hi"}
LinkDialogues == {"go"}

\* ------------------------------------------------------------------ Option
None == <<>>
Some(x) == <<x>>

\* ------------------------------------------------------------------ Result
Ok == <<"Ok">>
NodeDNE(key) == <<"NodeDNE", key>>
RootNotSet == <<"RootNotSet">>

\* ------------------------------------------------------------------ Link, Node
\* Link::new
Link_new(to_key, dialogue) == [to_key |-> to_key, dialogue |-> dialogue]

\* Node::new: a node without links.
Node_new(key, dialogue) == [key |-> key, dialogue |-> dialogue, links |-> <<>>]

\* Link::link: push a link to `to` on the links of `from`.
Link_link(from, to, dialogue) ==
    [from EXCEPT !.links = Append(from.links, Link_new(to.key, dialogue))]

\* ------------------------------------------------------------------ IndexMap
\* IndexMap<String, Node>: a sequence of entries [k, v] with distinct k, in
\* insertion order.
IndexMap_new == <<>>

IndexMap_keys(m) == {m[i].k : i \in 1..Len(m)}

contains_key(m, key) == key \in IndexMap_keys(m)

IndexMap_index(m, key) == CHOOSE i \in 1..Len(m) : m[i].k = key

\* get: Some(value) for a present key, None otherwise.
IndexMap_get(m, key) ==
    IF contains_key(m, key) THEN Some(m[IndexMap_index(m, key)].v) ELSE None

\* insert: a present key keeps its position and gets the new value; an absent
\* key is appended.
IndexMap_insert(m, key, value) ==
    IF contains_key(m, key)
    THEN [i \in 1..Len(m) |-> IF m[i].k = key THEN [k |-> key, v |-> value] ELSE m[i]]
    ELSE Append(m, [k |-> key, v |-> value])

\* shift_remove: the entries after the removed one move up by one.
IndexMap_shift_remove(m, key) ==
    IF ~contains_key(m, key) THEN m
    ELSE LET at == IndexMap_index(m, key)
         IN  [i \in 1..(Len(m) - 1) |-> IF i < at THEN m[i] ELSE m[i + 1]]

\* swap_remove: the last entry takes the place of the removed one.
IndexMap_swap_remove(m, key) ==
    IF ~contains_key(m, key) THEN m
    ELSE LET at == IndexMap_index(m, key)
         IN  [i \in 1..(Len(m) - 1) |-> IF i = at THEN m[Len(m)] ELSE m[i]]

\* ------------------------------------------------------------------ Tree
\* Tree::new
Tree_new == [nodes |-> IndexMap_new, root_key |-> None, current_key |-> None]

\* root_node that takes the first node of the map when root_key is set.
root_node_first(self) ==
    IF self.root_key = None \/ Len(self.nodes) = 0 THEN None ELSE Some(self.nodes[1].v)

\* Tree::root_node
root_node(self) ==
    IF self.root_key = None THEN None ELSE IndexMap_get(self.nodes, self.root_key[1])

\* Tree::current_node
current_node(self) ==
    IF self.current_key = None THEN None ELSE IndexMap_get(self.nodes, self.current_key[1])

\* set_root_key that never initialises current_key.
Tree_set_root_key_no_dual(self, node_key) ==
    IF ~contains_key(self.nodes, node_key)
    THEN [self |-> self, ret |-> NodeDNE(node_key)]
    ELSE [self |-> [self EXCEPT !.root_key = Some(node_key)], ret |-> Ok]

\* set_root_key without the existence check.
Tree_set_root_key_no_check(self, node_key) ==
    [self |-> [self EXCEPT !.root_key = Some(node_key),
                           !.current_key = IF self.current_key = None
                                           THEN Some(node_key)
                                           ELSE self.current_key],
     ret |-> Ok]

\* set_root_key that overwrites current_key whether it is set or not.
Tree_set_root_key_always_dual(self, node_key) ==
    IF ~contains_key(self.nodes, node_key)
    THEN [self |-> self, ret |-> NodeDNE(node_key)]
    ELSE [self |-> [self EXCEPT !.root_key = Some(node_key),
                                !.current_key = Some(node_key)],
          ret |-> Ok]

\* set_root_key that initialises current_key before it checks the key.
Tree_set_root_key_late_check(self, node_key) ==
    LET init == [self EXCEPT !.current_key = IF self.current_key = None
                                             THEN Some(node_key)
                                             ELSE self.current_key]
    IN  IF ~contains_key(self.nodes, node_key)
        THEN [self |-> init, ret |-> NodeDNE(node_key)]
        ELSE [self |-> [init EXCEPT !.root_key = Some(node_key)], ret |-> Ok]

\* Tree::set_root_key: the Tree after the call and what the call returns.
Tree_set_root_key(self, node_key) ==
    IF ~contains_key(self.nodes, node_key)
    THEN [self |-> self, ret |-> NodeDNE(node_key)]
    ELSE [self |-> [self EXCEPT !.root_key = Some(node_key),
                                !.current_key = IF self.current_key = None
                                                THEN Some(node_key)
                                                ELSE self.current_key],
          ret |-> Ok]

\* set_current_key that refuses to move on a Tree without a root.
Tree_set_current_key_needs_root(self, node_key) ==
    IF ~contains_key(self.nodes, node_key)
    THEN [self |-> self, ret |-> NodeDNE(node_key)]
    ELSE IF self.root_key = None
    THEN [self |-> self, ret |-> RootNotSet]
    ELSE [self |-> [self EXCEPT !.current_key = Some(node_key)], ret |-> Ok]

\* set_current_key that drops current_key when the key is absent.
Tree_set_current_key_clears(self, node_key) ==
    IF ~contains_key(self.nodes, node_key)
    THEN [self |-> [self EXCEPT !.current_key = None], ret |-> NodeDNE(node_key)]
    ELSE [self |-> [self EXCEPT !.current_key = Some(node_key)], ret |-> Ok]

\* Tree::set_current_key
Tree_set_current_key(self, node_key) ==
    IF ~contains_key(self.nodes, node_key)
    THEN [self |-> self, ret |-> NodeDNE(node_key)]
    ELSE [self |-> [self EXCEPT !.current_key = Some(node_key)], ret |-> Ok]

\* rewind that reports success without moving current_key.
Tree_rewind_stays(self) ==
    IF self.root_key = None
    THEN [self |-> self, ret |-> RootNotSet]
    ELSE [self |-> self, ret |-> Ok]

\* rewind that copies root_key before it checks it.
Tree_rewind_copies_first(self) ==
    [self |-> [self EXCEPT !.current_key = self.root_key],
     ret |-> IF self.root_key = None THEN RootNotSet ELSE Ok]

\* Tree::rewind
Tree_rewind(self) ==
    IF self.root_key = None
    THEN [self |-> self, ret |-> RootNotSet]
    ELSE [self |-> [self EXCEPT !.current_key = self.root_key], ret |-> Ok]

\* reset that keeps root_key.
Tree_reset_keeps_root(self) ==
    [self |-> [nodes |-> IndexMap_new, root_key |-> self.root_key, current_key |-> None],
     ret |-> Ok]

\* reset that clears the map only.
Tree_reset_keeps_keys(self) ==
    [self |-> [self EXCEPT !.nodes = IndexMap_new], ret |-> Ok]

\* reset that forgets to clear the map.
Tree_reset_keeps_nodes(self) ==
    [self |-> [self EXCEPT !.root_key = None, !.current_key = None], ret |-> Ok]

\* Tree::reset: returns nothing, so the call has the one outcome Ok.
Tree_reset(self) ==
    [self |-> [nodes |-> IndexMap_new, root_key |-> None, current_key |-> None],
     ret |-> Ok]

\* set_root_key_unchecked with the first-root initialisation of set_root_key.
Tree_set_root_key_unchecked_dual(self, node_key) ==
    [self EXCEPT !.root_key = Some(node_key),
                 !.current_key = IF self.current_key = None THEN Some(node_key)
                                 ELSE self.current_key]

\* Tree::set_root_key_unchecked
Tree_set_root_key_unchecked(self, node_key) == [self EXCEPT !.root_key = Some(node_key)]

\* Tree::set_current_key_unchecked
Tree_set_current_key_unchecked(self, node_key) == [self EXCEPT !.current_key = Some(node_key)]

\* rewind_unchecked that leaves current_key alone when there is no root.
Tree_rewind_unchecked_guarded(self) ==
    IF self.root_key = None THEN self ELSE [self EXCEPT !.current_key = self.root_key]

\* Tree::rewind_unchecked
Tree_rewind_unchecked(self) == [self EXCEPT !.current_key = self.root_key]

\* ------------------------------------------------------------------ Yaml
\* yaml_rust::Yaml values.  A Hash is a sequence of entries [k, v] with
\* distinct keys in insertion order, an Array a sequence of values.
YString(s) == [t |-> "String", s |-> s]
YInteger(i) == [t |-> "Integer", i |-> i]
YHash(h) == [t |-> "Hash", h |-> h]
YArray(a) == [t |-> "Array", a |-> a]
BadValue == [t |-> "BadValue"]

as_str(yaml) == IF yaml.t = "String" THEN Some(yaml.s) ELSE None
as_hash(yaml) == IF yaml.t = "Hash" THEN Some(yaml.h) ELSE None
as_vec(yaml) == IF yaml.t = "Array" THEN Some(yaml.a) ELSE None

\* Hash::get
Hash_get(h, key) ==
    IF \E i \in 1..Len(h) : h[i].k = key
    THEN Some(h[CHOOSE i \in 1..Len(h) : h[i].k = key].v)
    ELSE None

\* Hash::insert: a new key is appended; a present key gets the new value and
\* becomes the most recent entry.
Hash_insert(h, key, value) ==
    Append(SelectSeq(h, LAMBDA e : e.k # key), [k |-> key, v |-> value])

\* yaml["name"]: the value under the string key of a Hash, BadValue for a
\* missing key or a value that is not a Hash.
Yaml_index(yaml, name) ==
    IF yaml.t = "Hash" /\ Hash_get(yaml.h, YString(name)) # None
    THEN Hash_get(yaml.h, YString(name))[1]
    ELSE BadValue

\* ------------------------------------------------------------------ errors
Validation(msg) == <<"Validation", msg>>
MultipleDocumentsProvided == <<"MultipleDocumentsProvided">>

\* ------------------------------------------------------------------ importer
\* yaml_to_links, the inner loop: every entry of one link mapping becomes a
\* link.
RECURSIVE yaml_to_links_entries(_, _)
yaml_to_links_entries(entries, link_buf) ==
    IF entries = <<>> THEN [ret |-> Ok, links |-> link_buf]
    ELSE LET yaml_to == Head(entries).k
             yaml_dialogue == Head(entries).v
         IN  IF as_str(yaml_to) = None
             THEN [ret |-> Validation("YAML link name is not a string")]
             ELSE IF as_str(yaml_dialogue) = None
             THEN [ret |-> Validation("YAML link dialogue is not a string")]
             ELSE yaml_to_links_entries(Tail(entries),
                      Append(link_buf, Link_new(as_str(yaml_to)[1], as_str(yaml_dialogue)[1])))

\* yaml_to_links, the outer loop over the elements of the array.
RECURSIVE yaml_to_links_collect(_, _)
yaml_to_links_collect(links, link_buf) ==
    IF links = <<>> THEN [ret |-> Ok, links |-> link_buf]
    ELSE IF as_hash(Head(links)) = None
    THEN [ret |-> Validation("YAML link is not a hash")]
    ELSE LET one == yaml_to_links_entries(as_hash(Head(links))[1], link_buf)
         IN  IF one.ret # Ok THEN one ELSE yaml_to_links_collect(Tail(links), one.links)

\* yaml_to_links
yaml_to_links(yaml) ==
    IF as_vec(yaml) = None
    THEN [ret |-> Validation("YAML link data is not an array")]
    ELSE IF Len(as_vec(yaml)[1]) = 0
    THEN [ret |-> Validation("Links array has a length of 0")]
    ELSE yaml_to_links_collect(as_vec(yaml)[1], <<>>)

\* yaml_to_node
yaml_to_node(yaml_key, yaml_data) ==
    IF as_str(yaml_key) = None
    THEN [ret |-> Validation("YAML key is not a string")]
    ELSE IF as_hash(yaml_data) = None
    THEN [ret |-> Validation("YAML data is not a hash")]
    ELSE LET key == as_str(yaml_key)[1]
             data == as_hash(yaml_data)[1]
             dialogue == Hash_get(data, YString("dialogue"))
             yaml_links == Hash_get(data, YString("links"))
         IN  IF dialogue = None
             THEN [ret |-> Validation("YAML does not contain dialogue")]
             ELSE IF as_str(dialogue[1]) = None
             THEN [ret |-> Validation("YAML dialogue is not a string")]
             ELSE IF yaml_links = None
             THEN [ret |-> Ok, node |-> Node_new(key, as_str(dialogue[1])[1])]
             ELSE LET links == yaml_to_links(yaml_links[1])
                  IN  IF links.ret # Ok THEN [ret |-> links.ret]
                      ELSE [ret |-> Ok,
                            node |-> [Node_new(key, as_str(dialogue[1])[1])
                                        EXCEPT !.links = links.links]]

\* The node loop that leaves out the entries that fail validation.
RECURSIVE yaml_to_tree_insert_skipping(_, _)
yaml_to_tree_insert_skipping(entries, self) ==
    IF entries = <<>> THEN [ret |-> Ok, tree |-> self]
    ELSE LET node == yaml_to_node(Head(entries).k, Head(entries).v)
         IN  IF node.ret # Ok THEN yaml_to_tree_insert_skipping(Tail(entries), self)
             ELSE yaml_to_tree_insert_skipping(Tail(entries),
                      [self EXCEPT !.nodes = IndexMap_insert(self.nodes, node.node.key, node.node)])

\* yaml_to_tree, the node loop: the first entry that fails ends the import.
RECURSIVE yaml_to_tree_insert(_, _)
yaml_to_tree_insert(entries, self) ==
    IF entries = <<>> THEN [ret |-> Ok, tree |-> self]
    ELSE LET node == yaml_to_node(Head(entries).k, Head(entries).v)
         IN  IF node.ret # Ok THEN [ret |-> node.ret]
             ELSE yaml_to_tree_insert(Tail(entries),
                      [self EXCEPT !.nodes = IndexMap_insert(self.nodes, node.node.key, node.node)])

\* The root step that forgets current_key.
yaml_to_tree_set_root_only(self, root_key) ==
    IF ~contains_key(self.nodes, root_key)
    THEN [ret |-> NodeDNE(root_key)]
    ELSE [ret |-> Ok, tree |-> Tree_set_root_key_unchecked(self, root_key)]

\* The root step that looks for the root in the first entry only.
yaml_to_tree_set_root_first(self, root_key) ==
    IF self.nodes[1].k # root_key
    THEN [ret |-> NodeDNE(root_key)]
    ELSE [ret |-> Ok,
          tree |-> Tree_set_current_key_unchecked(
                       Tree_set_root_key_unchecked(self, root_key), root_key)]

\* The root step that also rejects a link to a key that is not a node.
yaml_to_tree_set_root_strict(self, root_key) ==
    IF ~contains_key(self.nodes, root_key)
    THEN [ret |-> NodeDNE(root_key)]
    ELSE IF \E i \in 1..Len(self.nodes) : \E j \in 1..Len(self.nodes[i].v.links) :
                ~contains_key(self.nodes, self.nodes[i].v.links[j].to_key)
    THEN [ret |-> Validation("link to a missing node")]
    ELSE [ret |-> Ok,
          tree |-> Tree_set_current_key_unchecked(
                       Tree_set_root_key_unchecked(self, root_key), root_key)]

\* yaml_to_tree, the root step: after the loop, the root must be a key of
\* nodes; root_key and current_key are then set without further checks.
yaml_to_tree_set_root(self, root_key) ==
    IF ~contains_key(self.nodes, root_key)
    THEN [ret |-> NodeDNE(root_key)]
    ELSE [ret |-> Ok,
          tree |-> Tree_set_current_key_unchecked(
                       Tree_set_root_key_unchecked(self, root_key), root_key)]

\* yaml_to_tree without the check of the length of the node map.
yaml_to_tree_no_len(yaml) ==
    LET root_key == as_str(Yaml_index(yaml, "root"))
        node_map == as_hash(Yaml_index(yaml, "nodes"))
    IN  IF root_key = None
        THEN [ret |-> Validation("YAML does not contain top-level string key for root")]
        ELSE IF node_map = None
        THEN [ret |-> Validation("YAML does not contain top-level hash for nodes")]
        ELSE LET loaded == yaml_to_tree_insert(node_map[1], Tree_new)
             IN  IF loaded.ret # Ok THEN loaded
                 ELSE yaml_to_tree_set_root(loaded.tree, root_key[1])

\* yaml_to_tree
yaml_to_tree(yaml) ==
    LET root_key == as_str(Yaml_index(yaml, "root"))
        node_map == as_hash(Yaml_index(yaml, "nodes"))
    IN  IF root_key = None
        THEN [ret |-> Validation("YAML does not contain top-level string key for root")]
        ELSE IF node_map = None
        THEN [ret |-> Validation("YAML does not contain top-level hash for nodes")]
        ELSE IF Len(node_map[1]) = 0
        THEN [ret |-> Validation("Node map has a length of 0")]
        ELSE LET loaded == yaml_to_tree_insert(node_map[1], Tree_new)
             IN  IF loaded.ret # Ok THEN loaded
                 ELSE yaml_to_tree_set_root(loaded.tree, root_key[1])

\* source_to_tree.  `docs` is what YamlLoader::load_from_str makes of the
\* source: the sequence of its documents.
source_to_tree(docs) ==
    IF Len(docs) # 1 THEN [ret |-> MultipleDocumentsProvided]
    ELSE yaml_to_tree(docs[1])

\* ------------------------------------------------------------------ exporter
\* link_to_yaml
link_to_yaml(link) ==
    YHash(Hash_insert(<<>>, YString(link.to_key), YString(link.dialogue)))

\* node_to_yaml that writes links for a node without links too.
node_to_yaml_always_links(node) ==
    YHash(Hash_insert(Hash_insert(<<>>, YString("dialogue"), YString(node.dialogue)),
                      YString("links"),
                      YArray([i \in 1..Len(node.links) |-> link_to_yaml(node.links[i])])))

\* node_to_yaml
node_to_yaml(node) ==
    LET map == Hash_insert(<<>>, YString("dialogue"), YString(node.dialogue))
    IN  IF node.links # <<>>
        THEN YHash(Hash_insert(map, YString("links"),
                       YArray([i \in 1..Len(node.links) |-> link_to_yaml(node.links[i])])))
        ELSE YHash(map)

\* The loop of tree_to_yaml keyed by node.key in place of the map key.
RECURSIVE tree_to_yaml_nodes_by_node_key(_, _)
tree_to_yaml_nodes_by_node_key(entries, node_map) ==
    IF entries = <<>> THEN node_map
    ELSE tree_to_yaml_nodes_by_node_key(Tail(entries),
             Hash_insert(node_map, YString(Head(entries).v.key), node_to_yaml(Head(entries).v)))

\* tree_to_yaml, the loop over tree.nodes in stored order.
RECURSIVE tree_to_yaml_nodes(_, _)
tree_to_yaml_nodes(entries, node_map) ==
    IF entries = <<>> THEN node_map
    ELSE tree_to_yaml_nodes(Tail(entries),
             Hash_insert(node_map, YString(Head(entries).k), node_to_yaml(Head(entries).v)))

\* tree_to_yaml that writes the current key as root when there is one.
tree_to_yaml_from_current(self) ==
    IF self.root_key = None THEN [ret |-> RootNotSet]
    ELSE IF Len(self.nodes) = 0 THEN [ret |-> Validation("Node map has a length of 0")]
    ELSE [ret |-> Ok,
          yaml |-> YHash(Hash_insert(Hash_insert(<<>>, YString("root"),
                                         YString(IF self.current_key # None
                                                 THEN self.current_key[1]
                                                 ELSE self.root_key[1])),
                                     YString("nodes"),
                                     YHash(tree_to_yaml_nodes(self.nodes, <<>>))))]

\* tree_to_yaml with the two checks in the other order.
tree_to_yaml_len_first(self) ==
    IF Len(self.nodes) = 0 THEN [ret |-> Validation("Node map has a length of 0")]
    ELSE IF self.root_key = None THEN [ret |-> RootNotSet]
    ELSE [ret |-> Ok,
          yaml |-> YHash(Hash_insert(Hash_insert(<<>>, YString("root"), YString(self.root_key[1])),
                                     YString("nodes"),
                                     YHash(tree_to_yaml_nodes(self.nodes, <<>>))))]

\* tree_to_yaml
tree_to_yaml(self) ==
    IF self.root_key = None THEN [ret |-> RootNotSet]
    ELSE IF Len(self.nodes) = 0 THEN [ret |-> Validation("Node map has a length of 0")]
    ELSE [ret |-> Ok,
          yaml |-> YHash(Hash_insert(Hash_insert(<<>>, YString("root"), YString(self.root_key[1])),
                                     YString("nodes"),
                                     YHash(tree_to_yaml_nodes(self.nodes, <<>>))))]

\* tree_to_source.  The emitted text is represented by the document it
\* holds, which is what YamlLoader::load_from_str reads back from it.
tree_to_source(self) ==
    LET yaml == tree_to_yaml(self)
    IN  IF yaml.ret # Ok THEN yaml ELSE [ret |-> Ok, docs |-> <<yaml.yaml>>]

\* ------------------------------------------------------------------ walker
\* A line of input is a sequence of characters.  Chars is the alphabet the
\* lines are written in.
Chars == {"q", "Q", "x", " ", "+", "0", "1", "2"}

\* char::is_ascii_digit and the value of a digit.
is_ascii_digit(c) == c \in {"0", "1", "2"}

to_digit(c) == CASE c = "0" -> 0 [] c = "1" -> 1 [] c = "2" -> 2

\* char::to_ascii_lowercase
to_ascii_lowercase(c) == CASE c = "Q" -> "q" [] OTHER -> c

\* str::trim: the line without its leading and trailing whitespace.
RECURSIVE trim_start(_)
trim_start(line) ==
    IF line # <<>> /\ Head(line) = " " THEN trim_start(Tail(line)) ELSE line

RECURSIVE trim_end(_)
trim_end(line) ==
    IF line # <<>> /\ line[Len(line)] = " "
    THEN trim_end(SubSeq(line, 1, Len(line) - 1))
    ELSE line

trim(line) == trim_end(trim_start(line))

\* str::eq_ignore_ascii_case
eq_ignore_ascii_case(a, b) ==
    /\ Len(a) = Len(b)
    /\ \A i \in 1..Len(a) : to_ascii_lowercase(a[i]) = to_ascii_lowercase(b[i])

\* The value of a sequence of decimal digits.
RECURSIVE digits_value(_, _)
digits_value(digits, acc) ==
    IF digits = <<>> THEN acc
    ELSE digits_value(Tail(digits), acc * 10 + to_digit(Head(digits)))

\* parse::<usize> that trims the line first.
parse_usize_trimmed(line) ==
    LET t == trim(line)
        digits == IF t # <<>> /\ Head(t) = "+" THEN Tail(t) ELSE t
    IN  IF digits # <<>> /\ \A i \in 1..Len(digits) : is_ascii_digit(digits[i])
        THEN Some(digits_value(digits, 0))
        ELSE None

\* line.parse::<usize>(): an optional plus sign and at least one digit, and
\* nothing else; None stands for the Err.
parse_usize(line) ==
    LET digits == IF line # <<>> /\ Head(line) = "+" THEN Tail(line) ELSE line
    IN  IF digits # <<>> /\ \A i \in 1..Len(digits) : is_ascii_digit(digits[i])
        THEN Some(digits_value(digits, 0))
        ELSE None

\* current.links.get(link_id), with the 0-based index of the code.
links_get(links, link_id) ==
    IF link_id < Len(links) THEN Some(links[link_id + 1]) ELSE None

\* The head of the loop of walk: the walk is over when there is no current
\* node or the current node has no links, and prompts otherwise.
walk_head(self) ==
    IF current_node(self) = None THEN "no_current"
    ELSE IF Len(current_node(self)[1].links) = 0 THEN "dead_end"
    ELSE "prompt"

\* The rest of the loop body of walk for one line of input; "panic" is the
\* unwrap of an Err of set_current_key.
walk_line(self, line) ==
    IF eq_ignore_ascii_case(trim(line), <<"q">>)
    THEN [self |-> self, ret |-> Ok, walk |-> "quit"]
    ELSE LET link_id == parse_usize(line)
             link == IF link_id = None THEN None
                     ELSE links_get(current_node(self)[1].links, link_id[1])
         IN  IF link = None
             THEN [self |-> self, ret |-> Ok, walk |-> walk_head(self)]
             ELSE LET out == Tree_set_current_key(self, link[1].to_key)
                  IN  IF out.ret = Ok
                      THEN [self |-> out.self, ret |-> Ok, walk |-> walk_head(out.self)]
                      ELSE [self |-> out.self, ret |-> out.ret, walk |-> "panic"]

\* ------------------------------------------------------------------ state
VARIABLES
    nodes,        \* Tree.nodes
    root_key,     \* Tree.root_key
    current_key,  \* Tree.current_key
    last,         \* the last call: its name, key argument, return value and
                  \* the Tree it was applied to
    run,          \* history: the calls since the last successful set_root_key
    source,       \* the source the owner holds: its documents and, when it
                  \* was written by an export, the Tree it was exported from
    walk          \* where the walker is: "off" before walk is called,
                  \* "prompt" while it waits for a line, and how it ended

vars == <<nodes, root_key, current_key, last, run, source, walk>>

\* An empty source that no export has written.
NoSource == [docs |-> <<>>, origin |-> None]

tree == [nodes |-> nodes, root_key |-> root_key, current_key |-> current_key]

NoRun == [active |-> FALSE, r |-> "", rewinds |-> 0, away |-> FALSE]

\* The history after a call: a successful set_root_key(r) starts a run, a
\* successful set_current_key or a rewind continues it, any other call ends
\* it.  `rewinds` counts the rewinds that end the run (2 stands for two or
\* more), `away` says whether current_key differed from the root before them.
RunAfter(op, key, ret, post) ==
    CASE op = "set_root_key" /\ ret = Ok ->
            [active |-> TRUE, r |-> key, rewinds |-> 0,
             away |-> post.current_key # Some(key)]
      [] op = "set_current_key" /\ ret = Ok /\ run.active ->
            [run EXCEPT !.rewinds = 0, !.away = (key # run.r)]
      [] op = "rewind" /\ run.active ->
            [run EXCEPT !.rewinds = IF run.rewinds < 2 THEN run.rewinds + 1 ELSE 2]
      [] OTHER -> NoRun

\* The record of a call: its name, its key argument (None when it has none),
\* what it returned and the Tree it was applied to.
CallRecord(op, key, ret) == [op |-> op, key |-> key, ret |-> ret, pre |-> tree]

Init ==
    /\ nodes = Tree_new.nodes
    /\ root_key = Tree_new.root_key
    /\ current_key = Tree_new.current_key
    /\ last = [op |-> "new", key |-> None, ret |-> Ok, pre |-> Tree_new]
    /\ run = NoRun
    /\ source = NoSource
    /\ walk = "off"

\* ------------------------------------------------------------------ actions
set_root_key ==
    \E node_key \in CallKeys :
        LET out == Tree_set_root_key(tree, node_key)
        IN  /\ nodes' = out.self.nodes
            /\ root_key' = out.self.root_key
            /\ current_key' = out.self.current_key
            /\ last' = CallRecord("set_root_key", Some(node_key), out.ret)
            /\ run' = RunAfter("set_root_key", node_key, out.ret, out.self)
            /\ UNCHANGED <<source, walk>>

set_current_key ==
    \E node_key \in CallKeys :
        LET out == Tree_set_current_key(tree, node_key)
        IN  /\ nodes' = out.self.nodes
            /\ root_key' = out.self.root_key
            /\ current_key' = out.self.current_key
            /\ last' = CallRecord("set_current_key", Some(node_key), out.ret)
            /\ run' = RunAfter("set_current_key", node_key, out.ret, out.self)
            /\ UNCHANGED <<source, walk>>

rewind ==
    LET out == Tree_rewind(tree)
    IN  /\ nodes' = out.self.nodes
        /\ root_key' = out.self.root_key
        /\ current_key' = out.self.current_key
        /\ last' = CallRecord("rewind", None, out.ret)
        /\ run' = RunAfter("rewind", "", out.ret, out.self)
        /\ UNCHANGED <<source, walk>>

reset ==
    LET out == Tree_reset(tree)
    IN  /\ nodes' = out.self.nodes
        /\ root_key' = out.self.root_key
        /\ current_key' = out.self.current_key
        /\ last' = CallRecord("reset", None, out.ret)
        /\ run' = NoRun
        /\ UNCHANGED <<source, walk>>

\* The nodes the owner builds under a key: Node::new, then at most one
\* Link::link to a node of the key set.
NodeInputs(key) ==
    {Node_new(key, d) : d \in Dialogues}
    \cup {Link_link(Node_new(key, d), Node_new(to, d2), ld) :
            d \in Dialogues, to \in Keys, d2 \in Dialogues, ld \in LinkDialogues}

\* tree.nodes.insert(node.key.clone(), node) on the public map.
nodes_insert ==
    \E key \in Keys : \E node \in NodeInputs(key) :
        /\ nodes' = IndexMap_insert(nodes, node.key, node)
        /\ UNCHANGED <<root_key, current_key>>
        /\ last' = CallRecord("insert", Some(key), Ok)
        /\ run' = NoRun
        /\ UNCHANGED <<source, walk>>

\* tree.nodes.swap_remove(key) / tree.nodes.shift_remove(key) on the public
\* map, for a key that is present.
nodes_remove ==
    \E key \in Keys :
        /\ contains_key(nodes, key)
        /\ nodes' \in {IndexMap_swap_remove(nodes, key), IndexMap_shift_remove(nodes, key)}
        /\ UNCHANGED <<root_key, current_key>>
        /\ last' = CallRecord("remove", Some(key), Ok)
        /\ run' = NoRun
        /\ UNCHANGED <<source, walk>>

\* The checked operations and insertion.
Next ==
    \/ set_root_key
    \/ set_current_key
    \/ rewind
    \/ reset
    \/ nodes_insert

Spec == Init /\ [][Next]_vars

\* The same with removal from the public map.
NextMap ==
    \/ set_root_key
    \/ set_current_key
    \/ rewind
    \/ reset
    \/ nodes_insert
    \/ nodes_remove

SpecMap == Init /\ [][NextMap]_vars


\* ------------------------------------------------------------------ try_from, try_export
\* The sources the owner passes to Tree::try_from: a document of two nodes
\* whose root is the second entry, and a document whose root is not a node.
TryFromInputs ==
    {<<[t |-> "Hash",
        h |-> <<[k |-> [t |-> "String", s |-> "root"],
                 v |-> [t |-> "String", s |-> KeyNames[2]]],
                [k |-> [t |-> "String", s |-> "nodes"],
                 v |-> [t |-> "Hash",
                        h |-> <<[k |-> [t |-> "String", s |-> KeyNames[1]],
                                 v |-> [t |-> "Hash",
                                        h |-> <<[k |-> [t |-> "String", s |-> "dialogue"],
                                                 v |-> [t |-> "String", s |-> "Hi"]]>>]],
                                [k |-> [t |-> "String", s |-> KeyNames[2]],
                                 v |-> [t |-> "Hash",
                                        h |-> <<[k |-> [t |-> "String", s |-> "dialogue"],
                                                 v |-> [t |-> "String", s |-> "Hi"]],
                                                [k |-> [t |-> "String", s |-> "links"],
                                                 v |-> [t |-> "Array",
                                                        a |-> <<[t |-> "Hash",
                                                                 h |-> <<[k |-> [t |-> "String", s |-> KeyNames[1]],
                                                                          v |-> [t |-> "String", s |-> "go"]]>>]>>]]>>]]>>]]>>]>>,
     <<[t |-> "Hash",
        h |-> <<[k |-> [t |-> "String", s |-> "root"],
                 v |-> [t |-> "String", s |-> "missing"]],
                [k |-> [t |-> "String", s |-> "nodes"],
                 v |-> [t |-> "Hash",
                        h |-> <<[k |-> [t |-> "String", s |-> KeyNames[1]],
                                 v |-> [t |-> "Hash",
                                        h |-> <<[k |-> [t |-> "String", s |-> "dialogue"],
                                                 v |-> [t |-> "String", s |-> "Hi"]]>>]]>>]]>>]>>}

\* Tree::try_from: source_to_tree on a source the owner passes; the owner
\* keeps the new Tree on success and the Tree it had otherwise.
try_from ==
    \E out \in {source_to_tree(docs) : docs \in TryFromInputs} :
        /\ IF out.ret = Ok
           THEN /\ nodes' = out.tree.nodes
                /\ root_key' = out.tree.root_key
                /\ current_key' = out.tree.current_key
           ELSE UNCHANGED <<nodes, root_key, current_key>>
        /\ last' = CallRecord("try_from", None, out.ret)
        /\ run' = NoRun
        /\ UNCHANGED <<source, walk>>

\* Tree::try_export: tree_to_source on the owner's Tree, written to a file
\* that the owner does not read back.
try_export ==
    LET out == tree_to_source(tree)
    IN  /\ UNCHANGED <<nodes, root_key, current_key>>
        /\ last' = CallRecord("try_export", None, out.ret)
        /\ run' = NoRun
        /\ UNCHANGED <<source, walk>>

\* The checked operations, insertion, import and export.
NextChecked ==
    \/ set_root_key
    \/ set_current_key
    \/ rewind
    \/ reset
    \/ nodes_insert
    \/ try_from
    \/ try_export

SpecChecked == Init /\ [][NextChecked]_vars

\* ------------------------------------------------------------------ unchecked setters, accessors
\* unsafe { tree.set_root_key_unchecked(node_key) }
set_root_key_unchecked ==
    \E node_key \in Keys :
        LET out == Tree_set_root_key_unchecked(tree, node_key)
        IN  /\ nodes' = out.nodes
            /\ root_key' = out.root_key
            /\ current_key' = out.current_key
            /\ last' = CallRecord("set_root_key_unchecked", Some(node_key), Ok)
            /\ run' = NoRun
            /\ UNCHANGED <<source, walk>>

\* unsafe { tree.set_current_key_unchecked(node_key) }
set_current_key_unchecked ==
    \E node_key \in Keys :
        LET out == Tree_set_current_key_unchecked(tree, node_key)
        IN  /\ nodes' = out.nodes
            /\ root_key' = out.root_key
            /\ current_key' = out.current_key
            /\ last' = CallRecord("set_current_key_unchecked", Some(node_key), Ok)
            /\ run' = NoRun
            /\ UNCHANGED <<source, walk>>

\* unsafe { tree.rewind_unchecked() }
rewind_unchecked ==
    LET out == Tree_rewind_unchecked(tree)
    IN  /\ nodes' = out.nodes
        /\ root_key' = out.root_key
        /\ current_key' = out.current_key
        /\ last' = CallRecord("rewind_unchecked", None, Ok)
        /\ run' = NoRun
        /\ UNCHANGED <<source, walk>>

\* tree.root_node(): takes &self, the owner gets the Option.
root_node_call ==
    /\ UNCHANGED <<nodes, root_key, current_key>>
    /\ last' = CallRecord("root_node", None, root_node(tree))
    /\ run' = NoRun
    /\ UNCHANGED <<source, walk>>

\* tree.current_node(): takes &self, the owner gets the Option.
current_node_call ==
    /\ UNCHANGED <<nodes, root_key, current_key>>
    /\ last' = CallRecord("current_node", None, current_node(tree))
    /\ run' = NoRun
    /\ UNCHANGED <<source, walk>>

\* The unchecked setters, insertion and the accessors.
NextUnchecked ==
    \/ set_root_key_unchecked
    \/ set_current_key_unchecked
    \/ rewind_unchecked
    \/ nodes_insert
    \/ root_node_call
    \/ current_node_call

SpecUnchecked == Init /\ [][NextUnchecked]_vars

\* ------------------------------------------------------------------ import, export
\* importer::import: the source is read and handed to source_to_tree; the
\* owner gets a Tree on success and nothing but the error otherwise.
import ==
    LET out == source_to_tree(source.docs)
    IN  /\ IF out.ret = Ok
           THEN /\ nodes' = out.tree.nodes
                /\ root_key' = out.tree.root_key
                /\ current_key' = out.tree.current_key
           ELSE UNCHANGED <<nodes, root_key, current_key>>
        /\ last' = CallRecord("import", None, out.ret)
        /\ run' = NoRun
        /\ UNCHANGED <<source, walk>>

\* exporter::export: tree_to_source on the owner's Tree; the source is
\* written on success only.
export ==
    LET out == tree_to_source(tree)
    IN  /\ UNCHANGED <<nodes, root_key, current_key>>
        /\ source' = IF out.ret = Ok
                     THEN [docs |-> out.docs, origin |-> Some(tree)]
                     ELSE source
        /\ last' = CallRecord("export", None, out.ret)
        /\ run' = NoRun
        /\ UNCHANGED walk

NextIO ==
    \/ import
    \/ export

\* ------------------------------------------------------------------ sources
\* The documents the owner writes by hand.
LinkYaml(to, label) == YHash(<<[k |-> YString(to), v |-> YString(label)]>>)

\* Values of `links` that yaml_to_links accepts: one link to any key, two
\* links in either order, and elements that are not single-entry mappings.
LinksAccepted ==
    {YArray(<<LinkYaml(to, ld)>>) : to \in CallKeys, ld \in LinkDialogues}
    \cup {YArray(<<LinkYaml(KeyNames[1], "go"), LinkYaml(KeyNames[2], "back")>>),
          YArray(<<LinkYaml(KeyNames[2], "back"), LinkYaml(KeyNames[1], "go")>>),
          YArray(<<YHash(<<>>)>>),
          YArray(<<YHash(<<[k |-> YString(KeyNames[1]), v |-> YString("go")],
                           [k |-> YString(KeyNames[2]), v |-> YString("back")]>>)>>)}

\* Values of `links` that yaml_to_links rejects.
LinksRejected ==
    {YString("go"),
     YArray(<<>>),
     YArray(<<YString("go")>>),
     YArray(<<LinkYaml(KeyNames[1], "go"), YString("back")>>),
     YArray(<<YHash(<<[k |-> YInteger(1), v |-> YString("go")]>>)>>),
     YArray(<<YHash(<<[k |-> YString(KeyNames[1]), v |-> YInteger(1)]>>)>>)}

BodyYaml(dialogue) == YHash(<<[k |-> YString("dialogue"), v |-> dialogue]>>)

BodyLinksYaml(dialogue, links) ==
    YHash(<<[k |-> YString("dialogue"), v |-> dialogue], [k |-> YString("links"), v |-> links]>>)

BodiesAccepted ==
    {BodyYaml(YString(d)) : d \in Dialogues}
    \cup {BodyLinksYaml(YString(d), l) : d \in Dialogues, l \in LinksAccepted}

BodiesRejected ==
    {YString("Hi"),
     YHash(<<>>),
     YHash(<<[k |-> YString("links"), v |-> YArray(<<LinkYaml(KeyNames[2], "go")>>)]>>),
     BodyYaml(YInteger(1))}
    \cup {BodyLinksYaml(YString("Hi"), l) : l \in LinksRejected}

\* The sequences of distinct node keys.
KeySeqs ==
    {ks \in UNION {[1..n -> Keys] : n \in 1..MaxKeys} :
        \A i, j \in 1..Len(ks) : i # j => ks[i] # ks[j]}

\* Node maps whose entries all pass yaml_to_node.
NodeMapsAccepted ==
    UNION {{[i \in 1..Len(ks) |-> [k |-> YString(ks[i]), v |-> b[i]]] :
                b \in [1..Len(ks) -> BodiesAccepted]} : ks \in KeySeqs}

\* Node maps of plain nodes in which one entry has a rejected body or a key
\* that is not a string.
NodeMapsRejected ==
    UNION {UNION {{[i \in 1..Len(ks) |->
                        IF i = at THEN [k |-> YString(ks[i]), v |-> bad]
                        ELSE [k |-> YString(ks[i]), v |-> BodyYaml(YString("Hi"))]] :
                      bad \in BodiesRejected}
                  \cup {[i \in 1..Len(ks) |->
                        IF i = at THEN [k |-> YInteger(1), v |-> BodyYaml(YString("Hi"))]
                        ELSE [k |-> YString(ks[i]), v |-> BodyYaml(YString("Hi"))]]} :
                   at \in 1..Len(ks)} : ks \in KeySeqs}

DocYaml(root, node_map) ==
    YHash(<<[k |-> YString("root"), v |-> root], [k |-> YString("nodes"), v |-> node_map]>>)

PlainMap == <<[k |-> YString(KeyNames[1]), v |-> BodyYaml(YString("Hi"))]>>

\* Documents with a string root (a node key or not) over the node maps, and
\* documents whose top level is malformed.
DocInputs ==
    {DocYaml(YString(r), YHash(m)) : r \in CallKeys, m \in NodeMapsAccepted}
    \cup {DocYaml(YString(r), YHash(m)) : r \in Keys, m \in NodeMapsRejected}
    \cup {DocYaml(r, m) : r \in {YString(KeyNames[1]), YInteger(1)},
                          m \in {YHash(<<>>), YString("Hi"), YArray(<<>>)}}
    \cup {DocYaml(YInteger(1), YHash(PlainMap)),
          YHash(<<[k |-> YString("nodes"), v |-> YHash(PlainMap)]>>),
          YHash(<<[k |-> YString("root"), v |-> YString(KeyNames[1])]>>),
          YHash(<<>>),
          YString("Hi")}

\* Sources: one document, none, or two.
SourceInputs ==
    {<<d>> : d \in DocInputs}
    \cup {<<>>, <<DocYaml(YString(KeyNames[1]), YHash(PlainMap)),
                  DocYaml(YString(KeyNames[1]), YHash(PlainMap))>>}

\* The owner starts with a new Tree and a source written by hand.
InitImport ==
    /\ nodes = Tree_new.nodes
    /\ root_key = Tree_new.root_key
    /\ current_key = Tree_new.current_key
    /\ last = [op |-> "new", key |-> None, ret |-> Ok, pre |-> Tree_new]
    /\ run = NoRun
    /\ \E docs \in SourceInputs : source = [docs |-> docs, origin |-> None]
    /\ walk = "off"

SpecImport == InitImport /\ [][NextIO]_vars

\* ------------------------------------------------------------------ walking
\* The lines the user types: at most two characters.
Lines ==
    {<<>>} \cup {<<a>> : a \in Chars} \cup {<<a, b>> : a \in Chars, b \in Chars}

\* The files the walker is started on: two nodes with any accepted bodies,
\* either of them the root.
WalkSources ==
    {<<DocYaml(YString(r),
               YHash(<<[k |-> YString(KeyNames[1]), v |-> b1],
                       [k |-> YString(KeyNames[2]), v |-> b2]>>))>> :
        r \in {KeyNames[1], KeyNames[2]}, b1 \in BodiesAccepted, b2 \in BodiesAccepted}

\* main calls walk(tree) with the Tree it imported.
walk_start ==
    /\ walk = "off"
    /\ last.op = "import" /\ last.ret = Ok
    /\ walk' = walk_head(tree)
    /\ last' = CallRecord("walk", None, Ok)
    /\ run' = NoRun
    /\ UNCHANGED <<nodes, root_key, current_key, source>>

\* walk reads a line at the prompt and handles it.
walk_input ==
    /\ walk = "prompt"
    /\ \E line \in Lines :
        LET out == walk_line(tree, line)
        IN  /\ nodes' = out.self.nodes
            /\ root_key' = out.self.root_key
            /\ current_key' = out.self.current_key
            /\ walk' = out.walk
            /\ last' = CallRecord("read_line", Some(line), out.ret)
            /\ run' = NoRun
            /\ UNCHANGED source

\* main of the walking example: import, then walk.
NextWalk ==
    \/ (walk = "off" /\ import)
    \/ walk_start
    \/ walk_input

InitWalk ==
    /\ nodes = Tree_new.nodes
    /\ root_key = Tree_new.root_key
    /\ current_key = Tree_new.current_key
    /\ last = [op |-> "new", key |-> None, ret |-> Ok, pre |-> Tree_new]
    /\ run = NoRun
    /\ \E docs \in WalkSources : source = [docs |-> docs, origin |-> None]
    /\ walk = "off"

SpecWalk == InitWalk /\ [][NextWalk]_vars

\* ------------------------------------------------------------------ trees
\* The Trees an owner can hold: any node map over the keys, root_key and
\* current_key unset or naming any key, a key of nodes or not.
TreeNodeMaps ==
    {<<>>}
    \cup UNION {{[i \in 1..Len(ks) |-> [k |-> ks[i], v |-> n[i]]] :
                    n \in {f \in [1..Len(ks) -> UNION {NodeInputs(key) : key \in Keys}] :
                              \A i \in 1..Len(ks) : f[i].key = ks[i]}} : ks \in KeySeqs}

\* A Tree whose one node is stored under a key that is not node.key, as
\* tree.nodes.insert(KeyNames[1], Node::new(KeyNames[2], "Hi")) builds it.
MisKeyedTrees ==
    {[nodes |-> <<[k |-> KeyNames[1], v |-> Node_new(KeyNames[2], "Hi")]>>,
      root_key |-> Some(KeyNames[1]),
      current_key |-> c] : c \in {None, Some(KeyNames[1])}}

TreeInputs ==
    {[nodes |-> m, root_key |-> r, current_key |-> c] :
        m \in TreeNodeMaps,
        r \in {None} \cup {Some(key) : key \in CallKeys},
        c \in {None} \cup {Some(key) : key \in CallKeys}}
    \cup MisKeyedTrees

\* The owner starts with any such Tree and no source.
InitExport ==
    /\ \E t \in TreeInputs :
        /\ nodes = t.nodes
        /\ root_key = t.root_key
        /\ current_key = t.current_key
        /\ last = [op |-> "new", key |-> None, ret |-> Ok, pre |-> t]
    /\ run = NoRun
    /\ source = NoSource
    /\ walk = "off"

SpecExport == InitExport /\ [][NextIO]_vars

TypeOK ==
    /\ IndexMap_keys(nodes) \subseteq Keys
    /\ Cardinality(IndexMap_keys(nodes)) = Len(nodes)
    /\ root_key \in {None} \cup {Some(k) : k \in Keys}
    /\ current_key \in {None} \cup {Some(k) : k \in Keys}

\* ------------------------------------------------------------------ claims
\* The state of the traversal state machine.
TreeState ==
    CASE root_key = None /\ current_key = None -> "Empty"
      [] root_key # None /\ current_key = None -> "Rooted"
      [] root_key # None /\ current_key # None -> "Positioned"
      [] OTHER -> "Unrooted"

\* A key that is set and names no entry of the map.
Dangling(self) ==
    \/ self.root_key # None /\ ~contains_key(self.nodes, self.root_key[1])
    \/ self.current_key # None /\ ~contains_key(self.nodes, self.current_key[1])

HasLinkTo(node, key) == \E i \in 1..Len(node.links) : node.links[i].to_key = key

\* C1 (I1 and I2): after every public mutation, removal from the public map
\* included, root_key and current_key, when set, name a key of nodes.
\* Violated: removing the root's entry leaves root_key dangling.
C1_PointersResolve ==
    /\ root_key # None => contains_key(nodes, root_key[1])
    /\ current_key # None => contains_key(nodes, current_key[1])

\* C2 as stated: every state reachable through the checked operations and
\* insertion is Empty, Rooted or Positioned; current_key is never set while
\* root_key is unset.  Violated by set_current_key on a Tree without a root.
C2_Original == TreeState \in {"Empty", "Rooted", "Positioned"}

\* C2 as amended: every state reachable through the checked operations and
\* insertion is Empty, Positioned or Unrooted (current_key set, root_key
\* unset); root_key is never set while current_key is unset.
C2_States == TreeState \in {"Empty", "Positioned", "Unrooted"}

C2_Witness == TreeState = "Unrooted" /\ last.op = "set_current_key" /\ last.ret = Ok

\* C3: after every set_root_key or set_current_key call, either it returned
\* an error and the Tree is as before the call, or it returned Ok and its
\* key is a key of nodes.
C3_InvariantPreservation ==
    last.op \in {"set_root_key", "set_current_key"} =>
        \/ last.ret # Ok /\ tree = last.pre
        \/ last.ret = Ok /\ contains_key(nodes, last.key[1])

C3_Witness ==
    /\ last.op \in {"set_root_key", "set_current_key"}
    /\ last.ret # Ok
    /\ last.pre.nodes # <<>>
    /\ last.pre.current_key # None

\* C4: set_root_key(k) with k in nodes sets root_key to Some(k); it sets
\* current_key to Some(k) when current_key was None and leaves current_key
\* as it was otherwise.
C4_FirstRoot ==
    (last.op = "set_root_key" /\ contains_key(last.pre.nodes, last.key[1])) =>
        /\ last.ret = Ok
        /\ root_key = last.key
        /\ last.pre.current_key = None => current_key = last.key
        /\ last.pre.current_key # None => current_key = last.pre.current_key
        /\ nodes = last.pre.nodes

C4_Witness ==
    /\ last.op = "set_root_key" /\ last.ret = Ok
    /\ last.pre.root_key \notin {None, last.key}
    /\ last.pre.current_key \notin {None, last.key}
    /\ current_key # root_key

\* C5: set_current_key(k) with k in nodes succeeds, with or without a root
\* and with or without a link from the current node to k; afterwards
\* current_key = Some(k), and root_key and nodes are unchanged.
C5_SetCurrent ==
    (last.op = "set_current_key" /\ contains_key(last.pre.nodes, last.key[1])) =>
        /\ last.ret = Ok
        /\ current_key = last.key
        /\ root_key = last.pre.root_key
        /\ nodes = last.pre.nodes

C5_Witness ==
    /\ last.op = "set_current_key" /\ last.ret = Ok
    /\ last.pre.root_key = None
    /\ current_node(last.pre) # None
    /\ ~HasLinkTo(current_node(last.pre)[1], last.key[1])

\* C6: set_current_key(k) with k not in nodes returns NodeDNE(k) and leaves
\* the Tree as it was, so current_node() still returns the same node.
C6_SetCurrentMissing ==
    (last.op = "set_current_key" /\ ~contains_key(last.pre.nodes, last.key[1])) =>
        /\ last.ret = NodeDNE(last.key[1])
        /\ tree = last.pre
        /\ current_node(tree) = current_node(last.pre)

C6_Witness ==
    /\ last.op = "set_current_key" /\ last.ret = NodeDNE(last.key[1])
    /\ current_node(last.pre) # None

\* C7: set_root_key(k) with k not in nodes returns NodeDNE(k) and changes
\* nothing; current_key stays None when it was None.
C7_SetRootMissing ==
    (last.op = "set_root_key" /\ ~contains_key(last.pre.nodes, last.key[1])) =>
        /\ last.ret = NodeDNE(last.key[1])
        /\ tree = last.pre

C7_Witness ==
    /\ last.op = "set_root_key" /\ last.ret = NodeDNE(last.key[1])
    /\ last.pre.current_key = None
    /\ last.pre.nodes # <<>>

\* C8: after a successful set_root_key(r) and any successful
\* set_current_key calls, rewind() returns Ok with current_key = Some(r),
\* root_key = Some(r) and nodes unchanged; a second rewind() changes nothing.
C8_Rewind ==
    (run.active /\ run.rewinds >= 1) =>
        /\ last.op = "rewind" /\ last.ret = Ok
        /\ current_key = Some(run.r)
        /\ root_key = Some(run.r)
        /\ nodes = last.pre.nodes
        /\ run.rewinds = 2 => tree = last.pre

C8_Witness == run.active /\ run.rewinds = 2 /\ run.away

\* C9: rewind() with root_key = None returns RootNotSet and leaves
\* current_key, root_key and nodes unchanged.
C9_RewindNoRoot ==
    (last.op = "rewind" /\ last.pre.root_key = None) =>
        /\ last.ret = RootNotSet
        /\ tree = last.pre

C9_Witness ==
    /\ last.op = "rewind" /\ last.ret = RootNotSet
    /\ last.pre.current_key # None

\* C10: reset() yields the empty Tree from any state, dangling pointers
\* included, has no error outcome, and resetting twice equals resetting once.
C10_Reset ==
    last.op = "reset" =>
        /\ last.ret = Ok
        /\ tree = Tree_new
        /\ Tree_reset(tree).self = tree

C10_Witness == last.op = "reset" /\ Dangling(last.pre) /\ last.pre.nodes # <<>>

\* ------------------------------------------------------------------ documents
\* The document of a source that holds exactly one, its root and its nodes.
TheDoc == source.docs[1]
DocRoot(d) == Yaml_index(d, "root")
DocNodes(d) == Yaml_index(d, "nodes")

\* A link element that is not a mapping of strings to strings.
LinkElemInvalid(el) ==
    \/ el.t # "Hash"
    \/ \E i \in 1..Len(el.h) : el.h[i].k.t # "String" \/ el.h[i].v.t # "String"

\* A value of links that is not a non-empty sequence of such mappings.
LinksInvalid(l) ==
    \/ l.t # "Array"
    \/ Len(l.a) = 0
    \/ \E j \in 1..Len(l.a) : LinkElemInvalid(l.a[j])

\* A value of links with a mapping element that has not exactly one entry.
NotSingleEntry(l) ==
    /\ l.t = "Array"
    /\ \E j \in 1..Len(l.a) : l.a[j].t = "Hash" /\ Len(l.a[j].h) # 1

\* A node entry with a key that is not a string, a body that is not a
\* mapping, no string dialogue, or invalid links.
EntryInvalid(e) ==
    \/ e.k.t # "String"
    \/ e.v.t # "Hash"
    \/ Hash_get(e.v.h, YString("dialogue")) = None
    \/ Hash_get(e.v.h, YString("dialogue"))[1].t # "String"
    \/ /\ Hash_get(e.v.h, YString("links")) # None
       /\ LinksInvalid(Hash_get(e.v.h, YString("links"))[1])

\* A document that meets every rule the importer enforces.
DocEnforcedOk(d) ==
    /\ DocRoot(d).t = "String"
    /\ DocNodes(d).t = "Hash"
    /\ Len(DocNodes(d).h) > 0
    /\ \A i \in 1..Len(DocNodes(d).h) : ~EntryInvalid(DocNodes(d).h[i])
    /\ \E i \in 1..Len(DocNodes(d).h) : DocNodes(d).h[i].k = DocRoot(d)

\* The links a body writes, when each element is a single-entry mapping.
LinksWritten(body) ==
    IF Hash_get(body.h, YString("links")) = None THEN <<>>
    ELSE LET l == Hash_get(body.h, YString("links"))[1]
         IN  [j \in 1..Len(l.a) |->
                 [to_key |-> l.a[j].h[1].k.s, dialogue |-> l.a[j].h[1].v.s]]

\* Same root, same node keys in the same order, same dialogue and same links
\* per node.
SameShape(a, b) ==
    /\ a.root_key = b.root_key
    /\ Len(a.nodes) = Len(b.nodes)
    /\ \A i \in 1..Len(a.nodes) :
        /\ a.nodes[i].k = b.nodes[i].k
        /\ a.nodes[i].v.dialogue = b.nodes[i].v.dialogue
        /\ a.nodes[i].v.links = b.nodes[i].v.links

\* C11: a successful import of a document with root r yields root_key =
\* current_key = Some(r) with r a key of nodes, a non-empty nodes holding the
\* node keys of the document in document order, and every node stored under
\* its own key.
C11_ImportResult ==
    (last.op = "import" /\ last.ret = Ok) =>
        LET r == DocRoot(TheDoc).s
            es == DocNodes(TheDoc).h
        IN  /\ root_key = Some(r)
            /\ current_key = Some(r)
            /\ contains_key(nodes, r)
            /\ Len(nodes) > 0
            /\ Len(nodes) = Len(es)
            /\ \A i \in 1..Len(nodes) :
                nodes[i].k = es[i].k.s /\ nodes[i].v.key = nodes[i].k

C11_Witness ==
    /\ last.op = "import" /\ last.ret = Ok
    /\ source.origin = None
    /\ Len(nodes) >= 2
    /\ nodes[1].k # root_key[1]

\* C12: the import fails, and hands no Tree to the owner, whenever one node
\* entry fails validation, whatever the other entries are.
C12_NoPartialImport ==
    (/\ last.op = "import"
     /\ Len(source.docs) = 1
     /\ DocNodes(TheDoc).t = "Hash"
     /\ \E i \in 1..Len(DocNodes(TheDoc).h) : EntryInvalid(DocNodes(TheDoc).h[i])) =>
        /\ last.ret # Ok
        /\ tree = last.pre
        /\ DOMAIN source_to_tree(source.docs) = {"ret"}

C12_Witness ==
    /\ last.op = "import" /\ last.ret # Ok
    /\ Len(source.docs) = 1
    /\ DocNodes(TheDoc).t = "Hash"
    /\ Len(DocNodes(TheDoc).h) >= 2
    /\ DocNodes(TheDoc).h[1].k = DocRoot(TheDoc)
    /\ ~EntryInvalid(DocNodes(TheDoc).h[1])
    /\ EntryInvalid(DocNodes(TheDoc).h[2])

\* C13: with every node entry valid, the import fails with NodeDNE(root),
\* and hands no Tree to the owner, when root is not a node key, and succeeds
\* when root is a node key, the first one or not.
C13_RootChecked ==
    (/\ last.op = "import"
     /\ Len(source.docs) = 1
     /\ DocRoot(TheDoc).t = "String"
     /\ DocNodes(TheDoc).t = "Hash"
     /\ Len(DocNodes(TheDoc).h) > 0
     /\ \A i \in 1..Len(DocNodes(TheDoc).h) : ~EntryInvalid(DocNodes(TheDoc).h[i])) =>
        IF \E i \in 1..Len(DocNodes(TheDoc).h) : DocNodes(TheDoc).h[i].k = DocRoot(TheDoc)
        THEN last.ret = Ok
        ELSE last.ret = NodeDNE(DocRoot(TheDoc).s) /\ tree = last.pre

C13_Witness ==
    /\ last.op = "import"
    /\ Len(source.docs) = 1
    /\ DocRoot(TheDoc).t = "String"
    /\ last.ret = NodeDNE(DocRoot(TheDoc).s)
    /\ Len(DocNodes(TheDoc).h) >= 2

\* C14: the import fails with a validation error, and hands no Tree to the
\* owner, when nodes is an empty mapping, absent or not a mapping.
C14_NodesRequired ==
    (/\ last.op = "import"
     /\ Len(source.docs) = 1
     /\ (DocNodes(TheDoc).t # "Hash" \/ Len(DocNodes(TheDoc).h) = 0)) =>
        /\ last.ret[1] = "Validation"
        /\ tree = last.pre

C14_Witness ==
    /\ last.op = "import" /\ last.ret # Ok
    /\ Len(source.docs) = 1
    /\ DocRoot(TheDoc).t = "String"
    /\ DocNodes(TheDoc) = YHash(<<>>)

\* C15: the import fails whenever the links of a node are present and are
\* not a non-empty sequence of single-entry mappings of strings to strings.
\* Violated: a mapping element with no entry or with two entries is accepted.
C15_LinksRule ==
    (/\ last.op = "import"
     /\ Len(source.docs) = 1
     /\ DocNodes(TheDoc).t = "Hash"
     /\ \E i \in 1..Len(DocNodes(TheDoc).h) :
            LET body == DocNodes(TheDoc).h[i].v
            IN  /\ body.t = "Hash"
                /\ Hash_get(body.h, YString("links")) # None
                /\ \/ LinksInvalid(Hash_get(body.h, YString("links"))[1])
                   \/ NotSingleEntry(Hash_get(body.h, YString("links"))[1])) =>
        last.ret # Ok

C17_RoundTrip ==
    /\ (last.op = "export" /\ tree # Tree_new) => last.ret = Ok
    /\ (last.op = "import" /\ source.origin # None) =>
            (last.ret = Ok /\ tree = source.origin[1])

C17_Witness ==
    /\ last.op = "import" /\ source.origin # None
    /\ tree = source.origin[1]
    /\ Len(nodes) >= 2
    /\ \E i \in 1..Len(nodes) : Len(nodes[i].v.links) = 2
    /\ \E i \in 1..Len(nodes) : Len(nodes[i].v.links) = 0

\* C18: for every Tree whose export succeeds, however it was built,
\* importing what the export wrote succeeds and yields a Tree with the same
\* root, node keys, dialogue per node and links per node.
\* Violated: a Tree whose root_key is not a key of nodes exports, and the
\* import of that document fails.
C18_ReimportAny ==
    (last.op = "import" /\ source.origin # None) =>
        (last.ret = Ok /\ SameShape(tree, source.origin[1]))

C20_SameDocument ==
    (last.op = "import" /\ source.origin # None) =>
        /\ last.ret = Ok
        /\ tree_to_source(tree) = [ret |-> Ok, docs |-> source.docs]

\* C21: through set_root_key, set_current_key, rewind, reset, import and node
\* insertion, current_key is set whenever root_key is set.
C21_NoRooted == root_key # None => current_key # None

C21_Witness ==
    /\ last.op = "try_from" /\ last.ret = Ok
    /\ last.pre.root_key = None /\ last.pre.current_key # None
    /\ root_key # None /\ current_key = root_key

\* C30: through set_root_key, set_current_key, rewind, reset and node
\* insertion, a set root_key is a key of nodes, so nodes is not empty, and
\* the export of the Tree succeeds exactly when root_key is set, failing
\* with RootNotSet otherwise and never for empty nodes.
C30_ExportWhenRooted ==
    /\ root_key # None => (Len(nodes) > 0 /\ \E i \in 1..Len(nodes) : nodes[i].k = root_key[1])
    /\ tree_to_source(tree).ret = (IF root_key # None THEN Ok ELSE RootNotSet)
    /\ last.op = "try_export" => last.ret = (IF root_key # None THEN Ok ELSE RootNotSet)

C30_Witness ==
    /\ last.op = "try_export" /\ last.ret = Ok
    /\ Len(nodes) >= 2
    /\ nodes[1].k # root_key[1]

\* The node that nodes holds under a key, if the key is set and a node is
\* stored under it.
NodeUnder(key) ==
    IF key # None /\ \E i \in 1..Len(nodes) : nodes[i].k = key[1]
    THEN Some(nodes[CHOOSE i \in 1..Len(nodes) : nodes[i].k = key[1]].v)
    ELSE None

\* C24: root_node() returns the node stored under root_key, and None when
\* root_key is unset or names no node; current_node() does the same for
\* current_key; neither changes the Tree, and after a node is inserted
\* under a dangling key the accessor returns that node.
C24_Accessors ==
    /\ last.op = "root_node" => (tree = last.pre /\ last.ret = NodeUnder(root_key))
    /\ last.op = "current_node" => (tree = last.pre /\ last.ret = NodeUnder(current_key))
    /\ (/\ last.op = "insert"
        /\ ~contains_key(last.pre.nodes, last.key[1])) =>
            /\ last.pre.root_key = last.key =>
                    (root_node(last.pre) = None /\ root_node(tree) = Some(nodes[Len(nodes)].v))
            /\ last.pre.current_key = last.key =>
                    (current_node(last.pre) = None /\ current_node(tree) = Some(nodes[Len(nodes)].v))

C24_Witness ==
    /\ last.op = "root_node"
    /\ root_key # None
    /\ Len(nodes) > 0
    /\ last.ret = None

\* C26: set_root_key_unchecked(k) sets root_key to Some(k), for a k in nodes
\* or not, and leaves current_key and nodes as they were, also when
\* current_key is None; set_current_key_unchecked(k) sets current_key to
\* Some(k) and leaves root_key and nodes as they were.
C26_UncheckedSetters ==
    /\ last.op = "set_root_key_unchecked" =>
            /\ root_key = last.key
            /\ current_key = last.pre.current_key
            /\ nodes = last.pre.nodes
    /\ last.op = "set_current_key_unchecked" =>
            /\ current_key = last.key
            /\ root_key = last.pre.root_key
            /\ nodes = last.pre.nodes

C26_Witness ==
    /\ last.op = "set_root_key_unchecked"
    /\ ~contains_key(nodes, last.key[1])
    /\ Len(nodes) > 0
    /\ current_key = None

\* C27: rewind_unchecked() copies root_key into current_key whatever they
\* are and returns no error: without a root a set current_key becomes None;
\* root_key and nodes are as they were.
C27_RewindUnchecked ==
    last.op = "rewind_unchecked" =>
        /\ last.ret = Ok
        /\ current_key = last.pre.root_key
        /\ root_key = last.pre.root_key
        /\ nodes = last.pre.nodes

C27_Witness ==
    /\ last.op = "rewind_unchecked"
    /\ last.pre.root_key = None
    /\ last.pre.current_key # None
    /\ current_key = None

\* C23: the exported document has root equal to root_key and one nodes
\* entry per entry of the container, in stored order and under the map key;
\* each entry has dialogue, has links exactly when the node has links, and
\* lists one single-entry mapping of to_key to dialogue per link in order.
C23_Document ==
    (last.op = "export" /\ last.ret = Ok) =>
        /\ Len(source.docs) = 1
        /\ source.docs[1].t = "Hash"
        /\ Len(source.docs[1].h) = 2
        /\ source.docs[1].h[1] = [k |-> [t |-> "String", s |-> "root"],
                                  v |-> [t |-> "String", s |-> root_key[1]]]
        /\ source.docs[1].h[2].k = [t |-> "String", s |-> "nodes"]
        /\ source.docs[1].h[2].v.t = "Hash"
        /\ Len(source.docs[1].h[2].v.h) = Len(nodes)
        /\ \A i \in 1..Len(nodes) :
            LET e == source.docs[1].h[2].v.h[i]
                n == nodes[i].v
            IN  /\ e.k = [t |-> "String", s |-> nodes[i].k]
                /\ e.v.t = "Hash"
                /\ Len(e.v.h) = (IF Len(n.links) = 0 THEN 1 ELSE 2)
                /\ e.v.h[1] = [k |-> [t |-> "String", s |-> "dialogue"],
                               v |-> [t |-> "String", s |-> n.dialogue]]
                /\ Len(n.links) > 0 =>
                        e.v.h[2] =
                            [k |-> [t |-> "String", s |-> "links"],
                             v |-> [t |-> "Array",
                                    a |-> [j \in 1..Len(n.links) |->
                                            [t |-> "Hash",
                                             h |-> <<[k |-> [t |-> "String", s |-> n.links[j].to_key],
                                                      v |-> [t |-> "String", s |-> n.links[j].dialogue]]>>]]]]

C23_Witness ==
    /\ last.op = "export" /\ last.ret = Ok
    /\ Len(nodes) >= 2
    /\ Len(nodes[1].v.links) = 0
    /\ Len(nodes[2].v.links) > 0
    /\ root_key = Some(nodes[2].k)

\* C29: export leaves the Tree as it was and writes the same document
\* whatever current_key is, so the import of the export of a Tree whose
\* current_key is not its root yields a Tree with current_key at the root.
C29_ExportIgnoresCurrent ==
    /\ last.op = "export" =>
            /\ tree = last.pre
            /\ \A c \in {None} \cup {Some(key) : key \in CallKeys} :
                    tree_to_source([tree EXCEPT !.current_key = c]) = tree_to_source(tree)
    /\ (last.op = "import" /\ last.ret = Ok /\ source.origin # None) =>
            /\ root_key = source.origin[1].root_key
            /\ current_key = root_key

C29_Witness ==
    /\ last.op = "import" /\ last.ret = Ok
    /\ source.origin # None
    /\ source.origin[1].current_key # None
    /\ source.origin[1].current_key # source.origin[1].root_key
    /\ contains_key(source.origin[1].nodes, source.origin[1].current_key[1])
    /\ current_key = root_key

\* The lines that are the quit signal: q or Q between any whitespace.
QuitLines == {l \in Lines : SelectSeq(l, LAMBDA c : c # " ") \in {<<"q">>, <<"Q">>}}

\* The lines that are the index n, for n up to 2: the digit, alone or after
\* a zero or a plus sign.
IndexLines(n) ==
    LET d == <<"0", "1", "2">>[n + 1]
    IN  {<<d>>, <<"0", d>>, <<"+", d>>}

\* C22: the walk of an imported Tree ends only on the quit signal or at a
\* node without links, prompts again after any other input, and never
\* aborts the process.
\* Violated: choosing a link whose target is not a node panics.
C22_WalkEnds ==
    /\ walk \in {"off", "prompt", "quit", "dead_end"}
    /\ walk = "quit" => (last.op = "read_line" /\ last.key[1] \in QuitLines)
    /\ walk = "dead_end" =>
            (NodeUnder(current_key) # None /\ Len(NodeUnder(current_key)[1].links) = 0)
    /\ (last.op = "read_line" /\ last.key[1] \notin QuitLines) => walk \in {"prompt", "dead_end"}

\* C28: in the walker a line that is neither the quit signal nor an index
\* into the links of the current node leaves the Tree as it was, and the
\* walker prompts again at the same node.
C28_BadInput ==
    (/\ last.op = "read_line"
     /\ last.key[1] \notin QuitLines
     /\ \A n \in 0..(Len(current_node(last.pre)[1].links) - 1) :
            last.key[1] \notin IndexLines(n)) =>
        /\ tree = last.pre
        /\ walk = "prompt"

C28_Witness ==
    /\ last.op = "read_line"
    /\ last.key = Some(<<"2">>)
    /\ Len(current_node(last.pre)[1].links) = 2
    /\ walk = "prompt"
====
